---- MODULE Spec2Model ----
(***************************************************************************)
(* Model of the BizHealth report pipeline.                                 *)
(*                                                                         *)
(*   src/src/worker.ts: the polling worker.  main() runs one poll cycle,   *)
(*   then installs a 30 second interval timer whose callback runs          *)
(*   pollForJobs() again; the callbacks are async, so a timer cycle may    *)
(*   start while an earlier one is suspended at an await inside            *)
(*   processJob().  Every await on the store is one atomic step of the     *)
(*   model; the steps of different poll cycles interleave.                 *)
(*                                                                         *)
(*   Every call to an external service has three outcomes: it resolves     *)
(*   with data ("ok"), it resolves with an error object ("error"), or the  *)
(*   awaited promise rejects ("throw").  A call that did not resolve "ok"  *)
(*   has had no effect on the store.                                       *)
(*                                                                         *)
(*   Timestamps (new Date().toISOString()) are abstracted to the number    *)
(*   of the poll cycle that wrote them; 0 stands for null.                 *)
(*                                                                         *)
(*   src/src/orchestration/lil/phase5-lil-orchestrator.ts: runLILPhase5,   *)
(*   which generates the report set of the essentials plan into an output  *)
(*   directory.  The worker and the orchestrator are separate programs     *)
(*   that share no state: a behaviour is a run of one of them.             *)
(*                                                                         *)
(*   Spec is one uninterrupted run.  SpecFair adds the fairness of the     *)
(*   event loop and of the timer.  SpecRestart adds the termination of     *)
(*   the worker by a signal and its restart.  SpecProgress runs the        *)
(*   progress computation of the loop of processJob on lists of every      *)
(*   length up to MaxListLength.                                           *)
(***************************************************************************)
EXTENDS Integers, Sequences, FiniteSets

\* ---------------------------------------------------------------- bounds

\* Number of rows of pipeline_queue (jobs enqueued by the application).
NumJobs == 2

\* Number of poll cycles of one worker run: cycle 1 is the initial poll of
\* main(), the others are timer callbacks.
NumCycles == 3

\* Length of REPORT_TYPES in the model (17 in worker.ts).
NumReports == 2

\* Number of calls to external services (stores, content generation) that
\* fail during one run.
MaxFaults == 2

\* Length of LIL_PIPELINE_CONFIG.reportTypes in the model (8 in the
\* essentials plan).
NumLILReports == 3

\* Number of calls of runLILPhase5 on the same output directory.
MaxRuns == 2

\* Number of times the worker process is started (restarts after a
\* termination included).
MaxStarts == 2

\* Longest list of report types on which the progress computation is run.
MaxListLength == 20

\* REPORT_TYPES.length in worker.ts.
WorkerReportTypes == 17

\* Number of report types of the essentials set (the keys of REPORT_CONFIGS).
EssentialsReportTypes == 8

Jobs == 1..NumJobs

Cycles == 1..NumCycles

\* REPORT_TYPES: the report type at index i (0-based in the code) is
\* represented by the number i+1; its title is represented by the same number.
REPORT_TYPES == [k \in 1..NumReports |-> k]

\* LIL_PIPELINE_CONFIG.reportTypes, the keys of REPORT_CONFIGS in order.
reportTypes == [k \in 1..NumLILReports |-> k]

\* Outcomes of a call to an external service.
StoreResult == {"ok", "error", "throw"}

\* ---------------------------------------------------------------- state

VARIABLES
    program,          \* which program runs: "worker" or "lil"
    pipeline_queue,   \* table pipeline_queue: job id -> PipelineJob row
    questionnaires,   \* table questionnaires: status of the questionnaire of each job
    reports,          \* table reports: per job, the inserted report types in insertion order
    mainPc,           \* position of main(): "start", "initial", "interval";
                      \* "exited" after process.exit
    starts,           \* number of times the worker process has been started
    faults,           \* number of external calls that have failed so far:
                      \*   artifact  generation or persistence of one report
                      \*             (generateReport, saveReport, the report file write)
                      \*   other     every other call (queue and questionnaire queries
                      \*             and updates, the manifest write)
    cycle             \* the activation of pollForJobs/processJob of each poll cycle:
                      \*   pc    its position ("idle" before it starts; "done" or
                      \*         "skipped" after it has returned)
                      \*   job   the row the query selected (job.id), 0 when none
                      \*   i     the loop index of processJob (0-based), 0 outside the loop
                      \*   error the error caught by processJob's catch (error.message)

\* The worker's state.
workerVars == <<pipeline_queue, questionnaires, reports, mainPc, cycle, starts>>

VARIABLES
    lil,              \* the activation of runLILPhase5:
                      \*   pc      its position
                      \*   idx     index into reportTypes of the for-of loop (1-based)
                      \*   reports the local array `reports` (report types in push order)
                      \*   error   the report type whose failure the catch rethrew, 0 when none
                      \*   run     the number of this call (stands for its processedAt)
    files,            \* outputDir/reports: the report types that have a <reportType>.html
    manifest          \* outputDir/phase5/manifest.json

lilVars == <<lil, files, manifest>>

VARIABLES
    loop              \* the for loop of processJob run on a list of n report types:
                      \*   n        REPORT_TYPES.length (0: no such run)
                      \*   i        the loop index (0-based)
                      \*   progress the value computed at index i
                      \*   last     the value computed at index i - 1, 0 when i = 0

vars == <<program, pipeline_queue, questionnaires, reports, mainPc, faults, cycle, lil, files, manifest, loop, starts>>

\* A freshly enqueued job (interface PipelineJob).
PendingJob ==
    [status |-> "pending", progress |-> 0, current_report |-> 0,
     started_at |-> 0, completed_at |-> 0, error_message |-> "null"]

\* A poll cycle that has not started, or has returned (its locals are gone).
NoActivation(label) == [pc |-> label, job |-> 0, i |-> 0, error |-> "null"]

\* No run of the progress computation on a list of its own.
NoLoop == [n |-> 0, i |-> 0, progress |-> 0, last |-> 0]

\* No manifest.json in the output directory.
NoManifest == [exists |-> FALSE, reports |-> <<>>, totalReports |-> 0, processedAt |-> 0]

Init ==
    /\ program \in {"worker", "lil"}
    /\ lil = [pc |-> "idle", idx |-> 0, reports |-> <<>>, error |-> 0, run |-> 0]
    /\ files = {}
    /\ manifest = NoManifest
    /\ pipeline_queue = [j \in Jobs |-> PendingJob]
    /\ questionnaires = [j \in Jobs |-> "submitted"]
    /\ reports = [j \in Jobs |-> <<>>]
    /\ mainPc = "start"
    /\ faults = [artifact |-> 0, other |-> 0]
    /\ cycle = [c \in Cycles |-> NoActivation("idle")]
    /\ loop = NoLoop
    /\ starts = 1

\* ---------------------------------------------------------------- helpers

\* Math.round(x) for x = num/den >= 0: floor(x + 1/2).
Round(num, den) == (2 * num + den) \div (2 * den)

\* The computation with the index in place of the iteration number.
ProgressOfIndex(idx, n) == Round(idx * 100, n)

\* Math.round(((i + 1) / n) * 100) for a list of n report types.
ProgressOf(idx, n) == Round((idx + 1) * 100, n)

\* Math.round(((i + 1) / REPORT_TYPES.length) * 100)
Progress(idx) == ProgressOf(idx, Len(REPORT_TYPES))

\* .update({progress, current_report}).eq('id', jobId)
updateJobProgress(jobId, progress, currentReport) ==
    [pipeline_queue EXCEPT ![jobId].progress = progress,
                           ![jobId].current_report = currentReport]

\* .update({status: 'failed', error_message, completed_at}).eq('id', jobId)
markJobFailed(jobId, errorMessage, now) ==
    [pipeline_queue EXCEPT ![jobId].status = "failed",
                           ![jobId].error_message = errorMessage,
                           ![jobId].completed_at = now]

\* A completion write that leaves out progress: 100.
markJobCompletedNoProgress(jobId, now) ==
    [pipeline_queue EXCEPT ![jobId].status = "completed",
                           ![jobId].current_report = 0,
                           ![jobId].completed_at = now]

\* .update({status: 'completed', progress: 100, current_report: null, completed_at})
markJobCompleted(jobId, now) ==
    [pipeline_queue EXCEPT ![jobId].status = "completed",
                           ![jobId].progress = 100,
                           ![jobId].current_report = 0,
                           ![jobId].completed_at = now]

\* .update({status: 'processing', started_at}).eq('id', job.id)
markJobProcessing(jobId, now) ==
    [pipeline_queue EXCEPT ![jobId].status = "processing",
                           ![jobId].started_at = now]

\* An insert that records the first report type whatever was generated.
saveReportFirstType(jobId, reportType) ==
    [reports EXCEPT ![jobId] = Append(@, REPORT_TYPES[1])]

\* .insert({user_id, questionnaire_id, report_type, ...}): a new row each time.
saveReport(jobId, reportType) ==
    [reports EXCEPT ![jobId] = Append(@, reportType)]

\* The query without its filter on finished work: every job that is not
\* completed or failed.
UnfinishedJobs == {j \in Jobs : pipeline_queue[j].status \in {"pending", "processing"}}

\* .eq('status', 'pending').order('created_at', {ascending: true}).limit(1):
\* jobs are numbered in created_at order; 0 when the result is empty.
PendingJobs == {j \in Jobs : pipeline_queue[j].status = "pending"}

\* The same query ordered by created_at descending.
NewestPending ==
    IF PendingJobs = {} THEN 0
    ELSE CHOOSE j \in PendingJobs : \A k \in PendingJobs : j >= k

OldestPending ==
    IF PendingJobs = {} THEN 0
    ELSE CHOOSE j \in PendingJobs : \A k \in PendingJobs : j <= k

\* An external call of kind `kind` ends with outcome r; the failures of a
\* run are counted.
Outcome(r, kind) ==
    IF r = "ok" THEN UNCHANGED faults
    ELSE /\ faults.artifact + faults.other < MaxFaults
         /\ faults' = [faults EXCEPT ![kind] = @ + 1]


\* Control moves to `label` within the activation.
Goto(c, label) ==
    /\ cycle' = [cycle EXCEPT ![c].pc = label]
    /\ UNCHANGED mainPc

\* The catch of processJob is entered with the error `message`.
Catch(c, message) ==
    /\ cycle' = [cycle EXCEPT ![c].pc = "markFailed", ![c].error = message, ![c].i = 0]
    /\ UNCHANGED mainPc

\* pollForJobs returns: the initial poll lets main() go on to setInterval.
Return(c) ==
    /\ cycle' = [cycle EXCEPT ![c] = NoActivation("done")]
    /\ mainPc' = IF c = 1 THEN "interval" ELSE mainPc

\* Control after the body of iteration i: i++ and the loop test.
NextIteration(c) ==
    /\ cycle' = IF cycle[c].i + 1 < Len(REPORT_TYPES)
                THEN [cycle EXCEPT ![c].pc = "progress", ![c].i = @ + 1]
                ELSE [cycle EXCEPT ![c].pc = "markQuestionnaire", ![c].i = 0]
    /\ UNCHANGED mainPc

\* The rethrowing variant of the per-report catch.
ReportCatchRethrow(c) == Catch(c, "report")

\* catch (reportError) { log(...); /* Continue with other reports */ }
ReportCatch(c) == NextIteration(c)

\* ---------------------------------------------------------------- main

\* main(): await pollForJobs() (the initial poll).
InitialPoll ==
    /\ program = "worker"
    /\ mainPc = "start"
    /\ mainPc' = "initial"
    /\ cycle' = [cycle EXCEPT ![1].pc = "poll"]
    /\ UNCHANGED <<pipeline_queue, questionnaires, reports, faults, program, loop, starts, lilVars>>

\* setInterval callback: the timer fires and starts the next poll cycle,
\* whether or not earlier cycles have returned.
TimerTick(c) ==
    /\ mainPc = "interval"
    /\ c > 1
    /\ cycle[c].pc = "idle"
    /\ \A d \in 2..(c - 1) : cycle[d].pc # "idle"
    /\ Goto(c, "poll")
    /\ UNCHANGED <<pipeline_queue, questionnaires, reports, faults, program, loop, starts, lilVars>>

\* ---------------------------------------------------------------- pollForJobs

\* An empty result that is treated as if it held the first row of the table.
NoPendingJobTakesFirst(c) ==
    /\ cycle' = [cycle EXCEPT ![c].pc = "claim", ![c].job = 1]
    /\ UNCHANGED mainPc

\* if (jobs && jobs.length > 0) is false: pollForJobs returns.
NoPendingJob(c) == Return(c)

\* A failed query that ends the worker.
PollFailedStopsWorker(c) ==
    /\ cycle' = [cycle EXCEPT ![c] = NoActivation("skipped")]
    /\ mainPc' = "stopped"

\* if (error) { log('Error polling for jobs:'); return; } and
\* catch (error) { log('Error in poll cycle:') }: the cycle is skipped, and
\* pollForJobs returns normally to main() or to the timer callback.
PollFailed(c) ==
    /\ cycle' = [cycle EXCEPT ![c] = NoActivation("skipped")]
    /\ mainPc' = IF c = 1 THEN "interval" ELSE mainPc

\* The query for pending jobs and the branch on its result.
PollQuery(c) ==
    /\ cycle[c].pc = "poll"
    /\ \E r \in StoreResult : Outcome(r, "other") /\
        \/ /\ r = "ok"
           /\ OldestPending # 0
           /\ cycle' = [cycle EXCEPT ![c].pc = "claim", ![c].job = OldestPending]
           /\ UNCHANGED mainPc
        \/ /\ r = "ok"
           /\ OldestPending = 0
           /\ NoPendingJob(c)
        \/ /\ r \in {"error", "throw"}
           /\ PollFailed(c)
    /\ UNCHANGED <<pipeline_queue, questionnaires, reports, program, loop, starts, lilVars>>

\* ---------------------------------------------------------------- processJob

\* "Mark job as processing": an unconditional update by id, outside the try;
\* its error result is not read.
ClaimWrite(c) ==
    /\ cycle[c].pc = "claim"
    /\ \E r \in StoreResult : Outcome(r, "other") /\
        \/ /\ r = "ok"
           /\ pipeline_queue' = markJobProcessing(cycle[c].job, c)
           /\ Goto(c, "fetch")
        \/ /\ r = "error"
           /\ Goto(c, "fetch")
           /\ UNCHANGED pipeline_queue
        \/ /\ r = "throw"
           /\ Return(c)
           /\ UNCHANGED pipeline_queue
    /\ UNCHANGED <<questionnaires, reports, program, loop, starts, lilVars>>

\* "Fetch questionnaire data": an error or a missing row throws into the catch.
FetchQuestionnaire(c) ==
    /\ cycle[c].pc = "fetch"
    /\ \E r \in StoreResult : Outcome(r, "other") /\
        \/ /\ r = "ok"
           /\ Goto(c, IF 0 < Len(REPORT_TYPES) THEN "progress" ELSE "markQuestionnaire")
        \/ /\ r \in {"error", "throw"}
           /\ Catch(c, "fetch")
    /\ UNCHANGED <<pipeline_queue, questionnaires, reports, program, loop, starts, lilVars>>

\* await updateJobProgress(job.id, progress, title): inside the outer try only.
UpdateProgress(c) ==
    /\ cycle[c].pc = "progress"
    /\ \E r \in StoreResult : Outcome(r, "other") /\
        \/ /\ r = "ok"
           /\ pipeline_queue' = updateJobProgress(cycle[c].job, Progress(cycle[c].i),
                                                  REPORT_TYPES[cycle[c].i + 1])
           /\ Goto(c, "generate")
        \/ /\ r = "error"
           /\ Goto(c, "generate")
           /\ UNCHANGED pipeline_queue
        \/ /\ r = "throw"
           /\ Catch(c, "progress")
           /\ UNCHANGED pipeline_queue
    /\ UNCHANGED <<questionnaires, reports, program, loop, starts, lilVars>>

\* await generateReport(...): a failure is caught by the per-report catch.
GenerateReport(c) ==
    /\ cycle[c].pc = "generate"
    /\ \E r \in {"ok", "throw"} : Outcome(r, "artifact") /\
        \/ /\ r = "ok"
           /\ Goto(c, "save")
        \/ /\ r = "throw"
           /\ ReportCatch(c)
    /\ UNCHANGED <<pipeline_queue, questionnaires, reports, program, loop, starts, lilVars>>

\* await saveReport(...): an insert; an error result is thrown, into the
\* per-report catch.
SaveReport(c) ==
    /\ cycle[c].pc = "save"
    /\ \E r \in StoreResult : Outcome(r, "artifact") /\
        \/ /\ r = "ok"
           /\ reports' = saveReport(cycle[c].job, REPORT_TYPES[cycle[c].i + 1])
           /\ Goto(c, "delay")
        \/ /\ r \in {"error", "throw"}
           /\ ReportCatch(c)
           /\ UNCHANGED reports
    /\ UNCHANGED <<pipeline_queue, questionnaires, program, loop, starts, lilVars>>

\* await new Promise(resolve => setTimeout(resolve, 2000)): after a saved report.
Delay(c) ==
    /\ cycle[c].pc = "delay"
    /\ NextIteration(c)
    /\ UNCHANGED <<pipeline_queue, questionnaires, reports, faults, program, loop, starts, lilVars>>

\* "Mark questionnaire as completed": the error result is not read.
MarkQuestionnaire(c) ==
    /\ cycle[c].pc = "markQuestionnaire"
    /\ \E r \in StoreResult : Outcome(r, "other") /\
        \/ /\ r = "ok"
           /\ questionnaires' = [questionnaires EXCEPT ![cycle[c].job] = "completed"]
           /\ Goto(c, "markCompleted")
        \/ /\ r = "error"
           /\ Goto(c, "markCompleted")
           /\ UNCHANGED questionnaires
        \/ /\ r = "throw"
           /\ Catch(c, "questionnaire")
           /\ UNCHANGED questionnaires
    /\ UNCHANGED <<pipeline_queue, reports, program, loop, starts, lilVars>>

\* await markJobCompleted(job.id), then processJob and pollForJobs return.
MarkCompleted(c) ==
    /\ cycle[c].pc = "markCompleted"
    /\ \E r \in StoreResult : Outcome(r, "other") /\
        \/ /\ r = "ok"
           /\ pipeline_queue' = markJobCompleted(cycle[c].job, c)
           /\ Return(c)
        \/ /\ r = "error"
           /\ Return(c)
           /\ UNCHANGED pipeline_queue
        \/ /\ r = "throw"
           /\ Catch(c, "complete")
           /\ UNCHANGED pipeline_queue
    /\ UNCHANGED <<questionnaires, reports, program, loop, starts, lilVars>>

\* catch (error): await markJobFailed(job.id, error.message).  A rejection
\* here leaves processJob and is caught by pollForJobs.
MarkFailed(c) ==
    /\ cycle[c].pc = "markFailed"
    /\ \E r \in StoreResult : Outcome(r, "other") /\
        \/ /\ r = "ok"
           /\ pipeline_queue' = markJobFailed(cycle[c].job, cycle[c].error, c)
        \/ /\ r \in {"error", "throw"}
           /\ UNCHANGED pipeline_queue
    /\ Return(c)
    /\ UNCHANGED <<questionnaires, reports, program, loop, starts, lilVars>>

\* ---------------------------------------------------------------- runLILPhase5

\* A loop that ends after its first iteration.
LoopEndsEarly ==
    lil' = [lil EXCEPT !.pc = "manifest"]

\* The end of one iteration of the for-of loop.
NextReportType ==
    lil' = IF lil.idx < Len(reportTypes)
           THEN [lil EXCEPT !.pc = "generate", !.idx = @ + 1]
           ELSE [lil EXCEPT !.pc = "manifest"]

\* A catch that logs the failure and goes on with the next report type.
RethrowSwallowed(reportType) ==
    lil' = IF lil.idx < Len(reportTypes)
           THEN [lil EXCEPT !.pc = "generate", !.idx = @ + 1, !.error = reportType]
           ELSE [lil EXCEPT !.pc = "manifest", !.error = reportType]

\* catch (error) { logger.error(...); throw error; }: the failure of one
\* report type leaves the loop and rejects the call.
Rethrow(reportType) ==
    lil' = [lil EXCEPT !.pc = "thrown", !.error = reportType]

\* runLILPhase5(options) is called: reports = [], and the loop starts.
RunLILPhase5 ==
    /\ program = "lil"
    /\ lil.pc \in {"idle", "returned", "thrown"}
    /\ lil.run < MaxRuns
    /\ lil' = [pc |-> IF Len(reportTypes) > 0 THEN "generate" ELSE "manifest",
               idx |-> 1, reports |-> <<>>, error |-> 0, run |-> lil.run + 1]
    /\ UNCHANGED <<files, manifest, faults, program, loop, workerVars>>

\* await generateReport(reportType, ...); reports.push(report)
LILGenerateReport ==
    /\ lil.pc = "generate"
    /\ \E r \in {"ok", "throw"} : Outcome(r, "artifact") /\
        \/ /\ r = "ok"
           /\ lil' = [lil EXCEPT !.pc = "write", !.reports = Append(@, reportTypes[lil.idx])]
        \/ /\ r = "throw"
           /\ Rethrow(reportTypes[lil.idx])
    /\ UNCHANGED <<files, manifest, program, loop, workerVars>>

\* fs.writeFileSync(path.join(reportsDir, `${reportType}.html`), ...)
LILWriteReportFile ==
    /\ lil.pc = "write"
    /\ \E r \in {"ok", "throw"} : Outcome(r, "artifact") /\
        \/ /\ r = "ok"
           /\ files' = files \cup {reportTypes[lil.idx]}
           /\ NextReportType
        \/ /\ r = "throw"
           /\ Rethrow(reportTypes[lil.idx])
           /\ UNCHANGED files
    /\ UNCHANGED <<manifest, program, loop, workerVars>>

\* fs.writeFileSync(path.join(phase5Dir, 'manifest.json'), ...); return output
LILWriteManifest ==
    /\ lil.pc = "manifest"
    /\ \E r \in {"ok", "throw"} : Outcome(r, "other") /\
        \/ /\ r = "ok"
           /\ manifest' = [exists |-> TRUE, reports |-> lil.reports,
                           totalReports |-> Len(lil.reports), processedAt |-> lil.run]
           /\ lil' = [lil EXCEPT !.pc = "returned"]
        \/ /\ r = "throw"
           /\ lil' = [lil EXCEPT !.pc = "thrown"]
           /\ UNCHANGED manifest
    /\ UNCHANGED <<files, program, loop, workerVars>>

\* ---------------------------------------------------------------- specification

Next ==
    \/ InitialPoll
    \/ \E c \in Cycles : TimerTick(c)
    \/ \E c \in Cycles : PollQuery(c)
    \/ \E c \in Cycles : ClaimWrite(c)
    \/ \E c \in Cycles : FetchQuestionnaire(c)
    \/ \E c \in Cycles : UpdateProgress(c)
    \/ \E c \in Cycles : GenerateReport(c)
    \/ \E c \in Cycles : SaveReport(c)
    \/ \E c \in Cycles : Delay(c)
    \/ \E c \in Cycles : MarkQuestionnaire(c)
    \/ \E c \in Cycles : MarkCompleted(c)
    \/ \E c \in Cycles : MarkFailed(c)
    \/ RunLILPhase5
    \/ LILGenerateReport
    \/ LILWriteReportFile
    \/ LILWriteManifest

Spec == Init /\ [][Next]_vars

\* One step of the activation of poll cycle c: the continuation after an
\* await that has settled.
CycleStep(c) ==
    \/ PollQuery(c)
    \/ ClaimWrite(c)
    \/ FetchQuestionnaire(c)
    \/ UpdateProgress(c)
    \/ GenerateReport(c)
    \/ SaveReport(c)
    \/ Delay(c)
    \/ MarkQuestionnaire(c)
    \/ MarkCompleted(c)
    \/ MarkFailed(c)

\* Every external call settles and the event loop then runs the
\* continuation; main() runs, and the interval timer fires.
Fairness ==
    /\ WF_vars(InitialPoll)
    /\ WF_vars(\E c \in Cycles : TimerTick(c))
    /\ \A c \in Cycles : WF_vars(CycleStep(c))

SpecFair == Spec /\ Fairness

\* ---------------------------------------------------------------- termination and restart

\* Positions of a poll cycle that is not running.
RestingPcs == {"idle", "done", "skipped"}

\* SIGINT or SIGTERM: process.exit(0) (before the handlers are registered,
\* the default action of the signal).  The activations in flight are gone;
\* the tables keep what was written.
Terminate ==
    /\ program = "worker"
    /\ mainPc \in {"initial", "interval"}
    /\ mainPc' = "exited"
    /\ cycle' = [c \in Cycles |-> IF cycle[c].pc \in RestingPcs THEN cycle[c]
                                  ELSE NoActivation("killed")]
    /\ UNCHANGED <<pipeline_queue, questionnaires, reports, faults, program, loop, starts, lilVars>>

\* The worker process is started again: main() runs from its beginning.
Restart ==
    /\ mainPc = "exited"
    /\ starts < MaxStarts
    /\ starts' = starts + 1
    /\ mainPc' = "start"
    /\ cycle' = [c \in Cycles |-> NoActivation("idle")]
    /\ UNCHANGED <<pipeline_queue, questionnaires, reports, faults, program, loop, lilVars>>

NextRestart ==
    \/ Next
    \/ Terminate
    \/ Restart

SpecRestart == Init /\ [][NextRestart]_vars

\* ---------------------------------------------------------------- progress computation

\* The lengths of the lists the progress computation is run on.
ListLengths == 1..MaxListLength

\* The loop of processJob starts on a list of n report types: i = 0.
InitProgress ==
    /\ program = "worker"
    /\ lil = [pc |-> "idle", idx |-> 0, reports |-> <<>>, error |-> 0, run |-> 0]
    /\ files = {}
    /\ manifest = NoManifest
    /\ pipeline_queue = [j \in Jobs |-> PendingJob]
    /\ questionnaires = [j \in Jobs |-> "submitted"]
    /\ reports = [j \in Jobs |-> <<>>]
    /\ mainPc = "start"
    /\ faults = [artifact |-> 0, other |-> 0]
    /\ cycle = [c \in Cycles |-> NoActivation("idle")]
    /\ starts = 1
    /\ \E n \in ListLengths :
           loop = [n |-> n, i |-> 0, progress |-> ProgressOf(0, n), last |-> 0]

\* i++ and const progress = Math.round(((i + 1) / REPORT_TYPES.length) * 100)
ProgressStep ==
    /\ loop.i + 1 < loop.n
    /\ loop' = [loop EXCEPT !.i = @ + 1,
                            !.progress = ProgressOf(loop.i + 1, loop.n),
                            !.last = loop.progress]
    /\ UNCHANGED <<program, workerVars, faults, lilVars>>

NextProgress == ProgressStep

SpecProgress == InitProgress /\ [][NextProgress]_vars

\* ---------------------------------------------------------------- properties

Terminal == {"completed", "failed"}

\* Positions of processJob inside the for loop, and after it up to the
\* completion write.
LoopPcs == {"progress", "generate", "save", "delay"}

AfterFetchPcs == LoopPcs \cup {"markQuestionnaire", "markCompleted"}

\* Positions of processJob after the claim write.
PipelinePcs == AfterFetchPcs \cup {"fetch", "markFailed"}

\* A sequence of report types in configured order, each at most once.
InConfiguredOrder(rows) ==
    \A a, b \in 1..Len(rows) : a < b => rows[a] < rows[b]

\* C1: every change of a job's status is pending->processing,
\* processing->completed or processing->failed.
C1_StatusTransitions ==
    [][\A j \in Jobs :
          pipeline_queue'[j].status # pipeline_queue[j].status =>
              <<pipeline_queue[j].status, pipeline_queue'[j].status>> \in
                  {<<"pending", "processing">>, <<"processing", "completed">>,
                   <<"processing", "failed">>}]_vars

\* C2: once a job's status is completed or failed, no field of its record
\* changes any more.
C2_TerminalImmutable ==
    [][\A j \in Jobs :
          pipeline_queue[j].status \in Terminal =>
              pipeline_queue'[j] = pipeline_queue[j]]_vars

\* C3 (as claimed): in every reachable state progress is 100 if and only if
\* status is completed.
C3_HundredIffCompleted ==
    \A j \in Jobs :
        (pipeline_queue[j].progress = 100) <=> (pipeline_queue[j].status = "completed")

\* C3 (amended): the write that makes a job completed leaves its progress at
\* 100, and progress becomes 100 only by that write or by the progress update
\* of the last report type.
C3_HundredAtCompletionOrLastStage ==
    [][\A j \in Jobs :
          /\ (pipeline_queue[j].status # "completed" /\ pipeline_queue'[j].status = "completed")
                => pipeline_queue'[j].progress = 100
          /\ (pipeline_queue[j].progress # 100 /\ pipeline_queue'[j].progress = 100)
                => \/ pipeline_queue'[j].status = "completed"
                   \/ \E c \in Cycles : /\ cycle[c].pc = "progress"
                                        /\ cycle[c].job = j
                                        /\ cycle[c].i = Len(REPORT_TYPES) - 1]_vars

\* C3 witness: one job has been completed at progress 100 while another, in
\* its last stage, shows progress 100 and is still processing.
C3_Witness ==
    /\ \E j \in Jobs : /\ pipeline_queue[j].status = "completed"
                       /\ pipeline_queue[j].progress = 100
    /\ \E j \in Jobs : /\ pipeline_queue[j].status = "processing"
                       /\ pipeline_queue[j].progress = 100
                       /\ pipeline_queue[j].current_report = REPORT_TYPES[Len(REPORT_TYPES)]

\* C4: no write to a job record lowers its progress.
C4_ProgressNeverDecreases ==
    [][\A j \in Jobs : pipeline_queue'[j].progress >= pipeline_queue[j].progress]_vars

\* C5: in a run whose only failures are generations and persistences of
\* reports, a poll cycle that has fetched its questionnaire never enters the
\* catch of processJob, a failed report leads to the next loop iteration,
\* and when the cycle returns the job is completed.
C5_ReportFailuresIsolated ==
    [][\A c \in Cycles :
          (faults'.other = 0 /\ cycle[c].pc \in AfterFetchPcs) =>
              /\ cycle'[c].pc # "markFailed"
              /\ (cycle[c].pc \in {"generate", "save"} /\ cycle'[c] # cycle[c]
                                                        /\ faults' # faults) =>
                    IF cycle[c].i + 1 < Len(REPORT_TYPES)
                    THEN cycle'[c].pc = "progress" /\ cycle'[c].i = cycle[c].i + 1
                    ELSE cycle'[c].pc = "markQuestionnaire"
              /\ cycle'[c].pc = "done" =>
                    pipeline_queue'[cycle[c].job].status = "completed"]_vars

\* C5 witness: a job is completed although every report type failed.
C5_Witness ==
    \E j \in Jobs : /\ pipeline_queue[j].status = "completed"
                    /\ reports[j] = <<>>
                    /\ faults.other = 0
                    /\ faults.artifact >= Len(REPORT_TYPES)

\* The report types other than `failed`, in configured order.
AllBut(types, failed) == SelectSeq(types, LAMBDA t : t # failed)

C8_FetchFailureFailsCleanly ==
    [][\A c \in Cycles :
          (/\ cycle[c].pc = "markFailed"
           /\ cycle[c].error = "fetch"
           /\ cycle'[c].pc = "done"
           /\ faults' = [artifact |-> 0, other |-> 1]) =>
              /\ pipeline_queue'[cycle[c].job].status = "failed"
              /\ pipeline_queue'[cycle[c].job].error_message # "null"
              /\ pipeline_queue'[cycle[c].job].progress = 0
              /\ pipeline_queue'[cycle[c].job].current_report = 0
              /\ reports'[cycle[c].job] = <<>>]_vars

\* C9: no error raised once the loop has started leads to markJobFailed,
\* and no failed job has a saved report.
C9_FailedOnlyBeforeLoop ==
    [][/\ \A c \in Cycles :
             cycle[c].pc \in AfterFetchPcs => cycle'[c].pc # "markFailed"
       /\ \A j \in Jobs :
             pipeline_queue'[j].status = "failed" => reports'[j] = <<>>]_vars

\* C10: no two poll cycles are past the claim write with the same job.
C10_ExclusiveClaim ==
    \A c, d \in Cycles :
        (c # d /\ cycle[c].pc \in PipelinePcs /\ cycle[d].pc \in PipelinePcs) =>
            cycle[c].job # cycle[d].job

\* A poll cycle that holds a job: the query has selected it and processJob
\* has not returned.
InFlight(c) == cycle[c].job # 0

\* C11: at most one job is in flight: no poll cycle selects or claims a job
\* while another poll cycle still holds one.
C11_OneJobInFlight ==
    \A c, d \in Cycles : (c # d /\ InFlight(c)) => ~InFlight(d)

\* C12: a poll cycle whose query finds no pending job returns at once and
\* writes nothing: the job records, the questionnaires and the reports are
\* unchanged, and the cycle never reaches generation or persistence.
C12_EmptyPollWritesNothing ==
    [][\A c \in Cycles :
          (/\ cycle[c].pc = "poll"
           /\ cycle'[c] # cycle[c]
           /\ faults' = faults
           /\ PendingJobs = {}) =>
              /\ cycle'[c] = NoActivation("done")
              /\ pipeline_queue' = pipeline_queue
              /\ questionnaires' = questionnaires
              /\ reports' = reports]_vars

\* C12 witness: in a run without failures every poll cycle has returned and
\* every job has exactly one row per report type, so each job was processed
\* by one cycle and the remaining cycle polled an empty queue.
C12_Witness ==
    /\ faults = [artifact |-> 0, other |-> 0]
    /\ \A c \in Cycles : cycle[c].pc = "done"
    /\ \A j \in Jobs : /\ pipeline_queue[j].status = "completed"
                       /\ Len(reports[j]) = Len(REPORT_TYPES)

\* Some earlier poll cycle was skipped because its query failed.
SomeCycleSkipped == \E d \in Cycles : cycle[d].pc = "skipped"

\* C13: a poll cycle whose query fails changes no job, questionnaire or
\* report and returns normally, leaving main() at the interval timer; after
\* a skipped cycle the timer still starts the next poll cycle, a later
\* cycle whose query succeeds selects a job that is pending, and its
\* successful claim write makes that job processing.
C13_FailedPollSkipsCycleOnly ==
    [][/\ \A c \in Cycles :
             (cycle[c].pc = "poll" /\ cycle'[c] # cycle[c] /\ faults' # faults) =>
                 /\ cycle'[c] = NoActivation("skipped")
                 /\ pipeline_queue' = pipeline_queue
                 /\ questionnaires' = questionnaires
                 /\ reports' = reports
                 /\ mainPc' = "interval"
       /\ SomeCycleSkipped =>
             /\ mainPc = "interval"
             /\ (\E c \in Cycles : cycle[c].pc = "idle") =>
                    ENABLED (\E c \in Cycles : TimerTick(c))
             /\ \A c \in Cycles :
                    /\ (/\ cycle[c].pc = "poll"
                        /\ cycle'[c] # cycle[c]
                        /\ faults' = faults
                        /\ PendingJobs # {}) =>
                           /\ cycle'[c].pc = "claim"
                           /\ cycle'[c].job \in PendingJobs
                    /\ (/\ cycle[c].pc = "claim"
                        /\ cycle'[c] # cycle[c]
                        /\ faults' = faults) =>
                           /\ pipeline_queue'[cycle[c].job].status = "processing"
                           /\ pipeline_queue'[cycle[c].job].started_at = c]_vars

\* C13 witness: the initial poll was skipped, and the job that was pending
\* then has been claimed by a timer cycle, which is now processing it.
C13_Witness ==
    /\ cycle[1].pc = "skipped"
    /\ \E c \in Cycles, j \in Jobs :
           /\ c > 1
           /\ cycle[c].job = j
           /\ cycle[c].pc \in LoopPcs
           /\ pipeline_queue[j].status = "processing"
           /\ pipeline_queue[j].started_at = c

\* C14: a poll cycle selects a job only by its query, once, and the job is
\* the oldest of the jobs that are pending at the query (jobs are numbered
\* by created_at); a claim write marks only the job its cycle selected.
C14_ClaimsOldestPending ==
    [][/\ \A c \in Cycles :
             (cycle'[c].job # cycle[c].job /\ cycle'[c].job # 0) =>
                 /\ cycle[c].pc = "poll"
                 /\ cycle[c].job = 0
                 /\ cycle'[c].job \in PendingJobs
                 /\ \A k \in PendingJobs : cycle'[c].job <= k
       /\ \A j \in Jobs :
             (/\ pipeline_queue'[j] # pipeline_queue[j]
              /\ pipeline_queue'[j].status = "processing"
              /\ pipeline_queue'[j].started_at # pipeline_queue[j].started_at) =>
                 \E c \in Cycles : /\ cycle[c].pc = "claim"
                                    /\ cycle[c].job = j
                                    /\ pipeline_queue'[j].started_at = c
                                    /\ \A k \in Jobs \ {j} :
                                           pipeline_queue'[k] = pipeline_queue[k]]_vars

\* C14 witness: the older job was claimed and has ended, and a later cycle
\* has selected the younger job, the only one still pending.
C14_Witness ==
    \E c \in Cycles :
        /\ cycle[c].pc = "claim"
        /\ cycle[c].job = 2
        /\ pipeline_queue[2].status = "pending"
        /\ pipeline_queue[1].status \in Terminal
        /\ pipeline_queue[1].started_at \notin {0, c}

\* The elements of a sequence.
Range(seq) == {seq[k] : k \in 1..Len(seq)}

\* No element occurs twice in the sequence.
NoDuplicates(seq) == \A a, b \in 1..Len(seq) : seq[a] = seq[b] => a = b

\* C15: the rows recorded for one job never hold the same report type
\* twice, and neither do the entries of the manifest.
C15_NoDuplicateReportType ==
    /\ \A j \in Jobs : NoDuplicates(reports[j])
    /\ NoDuplicates(manifest.reports)

\* C16: persisting a report type that is already recorded for the job
\* leaves the store as it was: a successful saveReport for a type the job
\* already has a row for does not change the job's rows, and writing the
\* report file of a type that already has one does not change the files.
C16_PersistIdempotent ==
    [][/\ \A c \in Cycles :
             (/\ cycle[c].pc = "save"
              /\ cycle'[c].pc = "delay"
              /\ REPORT_TYPES[cycle[c].i + 1] \in Range(reports[cycle[c].job])) =>
                 reports'[cycle[c].job] = reports[cycle[c].job]
       /\ (/\ lil.pc = "write"
           /\ lil'.pc \in {"generate", "manifest"}
           /\ reportTypes[lil.idx] \in files) =>
              files' = files]_vars

\* Positions at which a report type is being generated or persisted.
ReportPcs == {"generate", "save"}

\* Within one run of the loop of processJob, the report type at index i is
\* entered from the progress update of index i, and index i + 1 is entered
\* only from the end of index i (failed generation, failed or successful
\* persistence and its delay).
LoopInOrder(c) ==
    /\ (cycle'[c].pc = "generate" /\ cycle[c].pc # "generate") =>
           /\ cycle[c].pc = "progress"
           /\ cycle'[c].i = cycle[c].i
    /\ (cycle'[c].pc = "progress" /\ cycle[c].pc \in LoopPcs /\ cycle'[c] # cycle[c]) =>
           /\ cycle[c].pc \in {"generate", "save", "delay"}
           /\ cycle'[c].i = cycle[c].i + 1
    /\ (cycle'[c].pc = "progress" /\ cycle[c].pc \notin LoopPcs) =>
           /\ cycle[c].pc = "fetch"
           /\ cycle'[c].i = 0

\* The same for the for-of loop of runLILPhase5.
LILLoopInOrder ==
    /\ (lil'.pc = "generate" /\ lil.pc \in {"generate", "write"} /\ lil' # lil) =>
           /\ lil.pc = "write"
           /\ lil'.idx = lil.idx + 1
    /\ (lil'.pc = "write" /\ lil.pc # "write") =>
           /\ lil.pc = "generate"
           /\ lil'.idx = lil.idx

\* C17: the report types of one job are processed in configured order and
\* one at a time: each loop advances index by index, and no two
\* generations or persistences for the same job are under way at once.
C17_SequentialInOrder ==
    [][/\ \A c \in Cycles : LoopInOrder(c)
       /\ LILLoopInOrder
       /\ \A c, d \in Cycles :
             (/\ c # d
              /\ cycle'[c].pc \in ReportPcs
              /\ cycle'[d].pc \in ReportPcs) =>
                 cycle'[c].job # cycle'[d].job]_vars

\* C18: in every job record error_message is set only if status is failed,
\* completed_at is set exactly when status is completed or failed,
\* started_at is unset while status is pending, and a completed job has
\* progress 100 and no current_report.
C18_RecordConsistent ==
    \A j \in Jobs :
        /\ pipeline_queue[j].error_message # "null" => pipeline_queue[j].status = "failed"
        /\ pipeline_queue[j].completed_at # 0 <=> pipeline_queue[j].status \in Terminal
        /\ pipeline_queue[j].status = "pending" => pipeline_queue[j].started_at = 0
        /\ pipeline_queue[j].status = "completed" =>
               /\ pipeline_queue[j].progress = 100
               /\ pipeline_queue[j].current_report = 0

\* Positions at which processJob works on its job: the questionnaire fetch,
\* a generation, a persistence.
WorkPcs == {"fetch", "generate", "save"}

\* C19: a poll cycle fetches, generates and persists for its job only while
\* the job's status is processing, and a claim write that fails ends the
\* cycle before any of that work.
C19_WorkOnlyWhileProcessing ==
    [][\A c \in Cycles :
          /\ cycle'[c].pc \in WorkPcs =>
                pipeline_queue'[cycle'[c].job].status = "processing"
          /\ (cycle[c].pc = "claim" /\ cycle'[c] # cycle[c] /\ faults' # faults) =>
                cycle'[c].pc = "done"]_vars

\* C20: for every list length up to MaxListLength, the worker's 17 and the
\* essentials set's 8 among them, the progress value at each index is an
\* integer in 1..100, is greater than the value at the index before, and is
\* 100 at the last index and at no earlier one.
C20_ProgressIncreasesToHundred ==
    loop.n # 0 =>
        /\ loop.progress \in 1..100
        /\ loop.progress > loop.last
        /\ loop.progress = 100 <=> loop.i = loop.n - 1

\* C20 witness: the last index of a list of 17 or of 8 report types, with
\* progress 100 after a smaller value.
C20_Witness ==
    /\ loop.n \in {WorkerReportTypes, EssentialsReportTypes}
    /\ loop.i = loop.n - 1
    /\ loop.progress = 100
    /\ loop.last \in 1..99

\* C21: the next report type of a job is entered only from the delay that
\* follows the one before, whether that one succeeded or failed, and the
\* delay step changes no job record and moves the loop on by one index.
C21_DelayBetweenReports ==
    [][\A c \in Cycles :
          /\ (/\ cycle[c].pc \in LoopPcs
              /\ cycle'[c].pc = "progress"
              /\ cycle'[c].i = cycle[c].i + 1) =>
                 cycle[c].pc = "delay"
          /\ (cycle[c].pc = "delay" /\ cycle'[c] # cycle[c]) =>
                 /\ pipeline_queue' = pipeline_queue
                 /\ cycle'[c].i \in {cycle[c].i + 1, 0}
                 /\ cycle'[c].pc \in {"progress", "markQuestionnaire"}]_vars

\* C22: in a run of the worker in which no call fails other than
\* generations and persistences of reports, every job eventually reaches
\* completed or failed, and a poll cycle never selects a job that another
\* poll cycle holds, so that each job is processed once.
C22_EveryJobProcessedOnce ==
    /\ \A j \in Jobs :
          <>(\/ program # "worker"
             \/ faults.other # 0
             \/ pipeline_queue[j].status \in Terminal)
    /\ [][\A c \in Cycles :
             (faults'.other = 0 /\ cycle[c].job = 0 /\ cycle'[c].job # 0) =>
                 \A d \in Cycles \ {c} : cycle[d].job # cycle'[c].job]_vars

\* C23: a poll cycle takes up a job only by its query, and only a job whose
\* status is pending; a job that is processing and that no poll cycle holds
\* (its process was terminated) is not selected by any cycle and its record
\* is not changed, so it stays processing for good.
C23_OrphanedJobStaysProcessing ==
    [][/\ \A c \in Cycles :
             (cycle'[c].job # 0 /\ cycle'[c].job # cycle[c].job) =>
                 /\ cycle[c].pc = "poll"
                 /\ pipeline_queue[cycle'[c].job].status = "pending"
       /\ \A j \in Jobs :
             (/\ pipeline_queue[j].status = "processing"
              /\ \A c \in Cycles : cycle[c].job # j) =>
                 /\ pipeline_queue'[j] = pipeline_queue[j]
                 /\ \A c \in Cycles : cycle'[c].job # j]_vars

\* C23 witness: no call has failed; the older job was left processing by a
\* terminated worker, and the restarted worker has passed it over and is
\* processing the younger job.
C23_Witness ==
    /\ starts = 2
    /\ faults = [artifact |-> 0, other |-> 0]
    /\ pipeline_queue[1].status = "processing"
    /\ pipeline_queue[1].started_at # 0
    /\ \A c \in Cycles : cycle[c].job # 1
    /\ \E c \in Cycles : /\ cycle[c].job = 2
                          /\ cycle[c].pc \in LoopPcs
                          /\ pipeline_queue[2].status = "processing"

\* The report types before position idx of the configured list.
TypesBefore(idx) == {reportTypes[k] : k \in 1..(idx - 1)}

\* C24: the manifest is written only at the end of a run that generated
\* every configured report type and wrote its file, and an existing
\* manifest lists all configured report types in order, with totalReports
\* their number; a run that has raised has written no manifest, and the
\* report files written before the failure are still there.
C24_ManifestOnlyAfterAllReports ==
    [][/\ manifest' # manifest =>
             /\ lil.pc = "manifest"
             /\ lil'.pc = "returned"
             /\ Range(reportTypes) \subseteq files
             /\ manifest'.processedAt = lil.run
       /\ manifest'.exists =>
             /\ manifest'.reports = reportTypes
             /\ manifest'.totalReports = Len(reportTypes)
       /\ lil'.pc = "thrown" =>
             /\ manifest'.processedAt # lil'.run
             /\ lil'.error # 0 => TypesBefore(lil'.idx) \subseteq files'
       /\ files \subseteq files']_vars

\* C24 witness: a first run in which the last report type failed: no
\* manifest, and the files of all earlier report types in place.
C24_Witness ==
    /\ lil.run = 1
    /\ lil.pc = "thrown"
    /\ lil.error = reportTypes[Len(reportTypes)]
    /\ files = TypesBefore(Len(reportTypes))
    /\ files # {}
    /\ ~manifest.exists

====
